---- MODULE Spec2Model ----
(***************************************************************************)
(* Path optimisation of elkplot (src/elkplot/optimization.py,              *)
(* src/elkplot/shape_utils.py, src/elkplot/spatial.py), its pen-up         *)
(* metrics (src/elkplot/drawing.py), draw (src/elkplot/util.py), the       *)
(* Turtle (src/elkplot/turtle.py) and run_plan and run_layer of the        *)
(* Device (src/elkplot/device.py).                                         *)
(*                                                                         *)
(* A point is a pair <<x, y>>, a path (shapely LineString) a sequence of   *)
(* points, a layer (shapely MultiLineString) a sequence of paths.  The     *)
(* points are drawn from a set whose mutual distances, and distances to    *)
(* the origin, are whole numbers, so that every distance, length and       *)
(* comparison of the code is computed exactly.  Ids of the spatial         *)
(* indexes are the 1-based positions of LineIndex.lines (0-based in the    *)
(* code); 0 stands for None.  An rtree nearest query returns one of the    *)
(* ids at minimum distance; which of several tied ids comes first is an    *)
(* internal matter of the rtree, hence a nondeterministic choice here.     *)
(***************************************************************************)
EXTENDS Integers, Sequences, FiniteSets, TLC

\* ------------------------------------------------------------------ bounds
MaxPaths == 3
MaxOptPaths == 2
MaxLayers == 2
MaxLayerPaths == 2
MaxGraphPaths == 2
MaxSolution == 3
MaxRetrace == 2
MaxOps == 5
MaxPoints == 3
MaxSlices == 2
MaxPlans == 2

\* the parts of a motor step that are told apart: a displacement and a step
\* error are whole numbers of 1/StepUnit of a step
StepUnit == 4

\* ---------------------------------------------------------------- geometry
ORIGIN == <<0, 0>>

\* the corners of a 3 x 4 rectangle: all distances are 0, 3, 4 or 5
Pts == {<<0, 0>>, <<3, 0>>, <<0, 4>>, <<3, 4>>}

Abs(x) == IF x < 0 THEN -x ELSE x

Dist2(p, q) == (p[1] - q[1]) * (p[1] - q[1]) + (p[2] - q[2]) * (p[2] - q[2])

\* shapely.Point(p).distance(q): the Euclidean distance, exact on Pts
distance(p, q) == CHOOSE r \in 0..10 : r * r = Dist2(p, q)

RECURSIVE length(_)
\* shapely.length(line): the sum of the lengths of the segments
length(line) ==
    IF Len(line) < 2 THEN 0
    ELSE distance(line[1], line[2]) + length(Tail(line))

First(line) == line[1]
Last(line) == line[Len(line)]

\* shapely.ops.substring(path, 1, 0, normalized=True): the path backwards
reverse_path(path) == [i \in 1..Len(path) |-> path[Len(path) + 1 - i]]

RECURSIVE total_length(_)
\* shapely.length(MultiLineString): pen-down distance of a layer
total_length(paths) ==
    IF paths = <<>> THEN 0 ELSE length(Head(paths)) + total_length(Tail(paths))

RECURSIVE up_length_from(_, _)
up_length_from(pen_position, drawing) ==
    IF drawing = <<>> THEN 0
    ELSE distance(pen_position, First(Head(drawing)))
         + up_length_from(Last(Head(drawing)), Tail(drawing))

\* pen-up distance of a layer: origin to the first start, each end to the next start
up_length(drawing) == up_length_from(ORIGIN, drawing)

NonDegenerate(line) == length(line) > 0

\* [line for line in shapely.get_parts(lines) if shapely.length(line) > 0]
FilterPaths(paths) == SelectSeq(paths, NonDegenerate)

\* mutant of _weld: the junction point is dropped from both paths
_weld_drop_both(a, b) ==
    IF Last(a) = First(b) THEN SubSeq(a, 1, Len(a) - 1) \o Tail(b) ELSE a \o b

\* mutant of _weld: the last point of a is dropped whether or not b starts there
_weld_always_drop(a, b) == SubSeq(a, 1, Len(a) - 1) \o b

\* _weld(a, b): a's points then b's, the shared point once when they coincide
_weld(a, b) ==
    IF Last(a) = First(b) THEN SubSeq(a, 1, Len(a) - 1) \o b ELSE a \o b

\* ------------------------------------------------------------------- state
VARIABLES
    pc,         \* position of the running call
    geometry,   \* the argument of the call (one layer)
    tolerance,  \* the tolerance argument
    lines,      \* LineIndex.lines
    index,      \* LineIndex.index: ids indexed by start point
    r_index,    \* LineIndex.r_index: ids indexed by end point
    len,        \* LineIndex.length
    out,        \* the list `out` of _sort_paths_single / _join_paths_single
    path,       \* the seed `path` of _join_paths_single
    pos,        \* the pen position `pos` of _sort_paths_single
    result,     \* the returned collection
    path_ids,   \* history: the ids of the lines welded into `path`, in order
    out_ids,    \* history: for each path of `out`, the ids of the lines it is made of
    gaps,       \* history: the distance bridged by each weld of this call
    kind,       \* the Python type of the value held by `geometry`
    ret,        \* where the running _sort_paths / _join_paths call returns to
    impl,       \* the module whose functions run: "optimization" or "shape_utils"
    flags,      \* the keyword arguments of optimize
    input,      \* history: the argument optimize was called with
    trace,      \* history: the stages optimize has run, <<stage, value returned, its type>>
    layers,     \* the list `layers` of a stage given a GeometryCollection
    collected,  \* the results of the layers that stage has done
    layer_stage, \* the stage given a GeometryCollection: "join", "sort", "delete_small"
    graph_paths, \* PathGraph.paths
    endpoints,  \* PathGraph.endpoints, node i at place i + 1
    solution,   \* the argument of get_route_from_solution
    route,      \* what get_route_from_solution returned
    path_index, \* PathIndex.idx: the nodes in the index of greedy_walk
    location,   \* the pen position `location` of greedy_walk
    yielded,    \* the nodes greedy_walk has yielded
    missing,    \* history: the deletes that named an id its index did not hold
    measured,   \* the pen-up distances computed so far, by the name of the function
    draw_args,  \* draw: the arguments plot, preview, retrace, device and the
                \* state of the plotter (connected, powered)
    plot_layers, \* draw: the list `layers`
    out_of_bounds, \* draw: out_of_bounds
    layer_no,   \* draw: the place of the for loop over layers
    retrace_no, \* draw: the place of the for loop over range(retrace)
    events,     \* history: what draw has done, <<name, layer number or 0>>
    _state,     \* Turtle._state: position, heading (in quarter turns), pen_down
    _stack,     \* Turtle._stack
    _current_line, \* Turtle._current_line
    _lines,     \* Turtle._lines
    returned,   \* what the last call of Turtle.drawing() returned
    ops,        \* history: how many methods of the turtle have been called
    pushed,     \* history: for each push not yet popped, the state and the
                \* depth of the stack at the push
    moves,      \* history: the pen-down moves, <<from, to>>
    last_op,    \* history: the last method called, and for pop what was to be restored
    error,      \* Device.error: the step error carried on, <<ex, ey>>
    plan_t,     \* run_plan: plan.t, in timeslices
    slice_no,   \* run_plan: t, in timeslices
    sent,       \* history: the sum of the steps sent by stepper_move, <<a, b>>
    ideal,      \* history: the sum of the displacements d * steps_per_unit
    plans_run,  \* history: how many plans run_plan has been given
    queue,      \* run_layer: what is in the mp.Queue
    planning    \* the process running plan_layer_proc: where it is, its `position`

vars == <<pc, geometry, tolerance, lines, index, r_index, len, out, path, pos, result,
          path_ids, out_ids, gaps, kind, ret, impl, flags, input, trace,
          layers, collected, layer_stage, graph_paths, endpoints, solution, route,
          path_index, location, yielded, missing,
          measured, draw_args, plot_layers, out_of_bounds, layer_no, retrace_no, events,
          _state, _stack, _current_line, _lines, returned, ops, pushed, moves, last_op,
          error, plan_t, slice_no, sent, ideal, plans_run, queue, planning>>

\* the arguments of the outermost call
optArgs == <<tolerance, impl, flags, input>>

layerVars == <<layers, collected, layer_stage>>

graphVars == <<graph_paths, endpoints, solution, route, path_index, location, yielded>>

metricVars == <<measured>>

drawVars == <<draw_args, plot_layers, out_of_bounds, layer_no, retrace_no, events>>

turtleVars == <<_state, _stack, _current_line, _lines, returned, ops, pushed, moves, last_op>>

planVars == <<error, plan_t, slice_no, sent, ideal, plans_run>>

deviceVars == <<planVars, queue, planning>>

\* the objects that are neither the optimizer's nor a PathGraph's
otherVars == <<metricVars, drawVars, turtleVars, deviceVars>>

\* what no step of a single-layer function changes
argVars == <<optArgs, layerVars, graphVars, otherVars>>

\* the state of the optimizer, the position of the call and the history of
\* the deletes left out
optCore == <<geometry, tolerance, lines, index, r_index, len, out, path, pos, result,
             path_ids, out_ids, gaps, kind, ret, impl, flags, input, trace, layerVars>>

optState == <<optCore, missing>>

callVars == <<geometry, result, kind, trace>>

joinVars == <<path, path_ids, out_ids, gaps>>

indexVars == <<lines, index, r_index, len, missing>>

\* ------------------------------------------------------------- LineIndex
\* ids of S whose point (start or end of the line) is nearest to p
Nearest(S, atEnd, p) ==
    {i \in S : \A j \in S :
        distance(p, IF atEnd THEN Last(lines[i]) ELSE First(lines[i]))
        <= distance(p, IF atEnd THEN Last(lines[j]) ELSE First(lines[j]))}

\* mutant of find_nearest: the nearest start point is taken, the end points never
find_nearest_forward(p) ==
    IF index = {} \/ r_index = {} THEN {<<0, FALSE>>}
    ELSE {<<f_idx, FALSE>> : f_idx \in Nearest(index, FALSE, p)}

\* LineIndex.find_nearest(p): the set of <<idx, reverse>> it can return
find_nearest(p) ==
    IF index = {} \/ r_index = {} THEN {<<0, FALSE>>}
    ELSE {IF distance(p, First(lines[f_idx])) < distance(p, Last(lines[r_idx]))
          THEN <<f_idx, FALSE>> ELSE <<r_idx, TRUE>> :
            f_idx \in Nearest(index, FALSE, p), r_idx \in Nearest(r_index, TRUE, p)}

\* mutant of find_nearest_within: squared distances are compared
find_nearest_within_squared(p, tol) ==
    IF index = {} THEN {<<0, FALSE>>}
    ELSE UNION {
        IF Dist2(p, First(lines[idx])) <= tol * tol THEN {<<idx, FALSE>>}
        ELSE IF r_index = {} THEN {<<0, FALSE>>}
        ELSE {IF Dist2(p, Last(lines[r])) <= tol * tol THEN <<r, TRUE>> ELSE <<0, FALSE>> :
                r \in Nearest(r_index, TRUE, p)} :
        idx \in Nearest(index, FALSE, p)}

\* mutant of find_nearest_within: the nearest end point is taken unchecked
find_nearest_within_unchecked(p, tol) ==
    IF index = {} THEN {<<0, FALSE>>}
    ELSE UNION {
        IF distance(p, First(lines[idx])) <= tol THEN {<<idx, FALSE>>}
        ELSE IF r_index = {} THEN {<<0, FALSE>>}
        ELSE {<<r, TRUE>> : r \in Nearest(r_index, TRUE, p)} :
        idx \in Nearest(index, FALSE, p)}

\* LineIndex.find_nearest_within(p, tolerance): the set of <<idx, reverse>> it can return
find_nearest_within(p, tol) ==
    IF index = {} THEN {<<0, FALSE>>}
    ELSE UNION {
        IF distance(p, First(lines[idx])) <= tol THEN {<<idx, FALSE>>}
        ELSE IF r_index = {} THEN {<<0, FALSE>>}
        ELSE {IF distance(p, Last(lines[r])) <= tol THEN <<r, TRUE>> ELSE <<0, FALSE>> :
                r \in Nearest(r_index, TRUE, p)} :
        idx \in Nearest(index, FALSE, p)}

\* LineIndex.next_available_id(): an id whose start is nearest to (0, 0)
next_available_id == Nearest(index, FALSE, ORIGIN)

\* LineIndex.__init__(lines)
LineIndexInit(paths) ==
    /\ lines' = FilterPaths(paths)
    /\ len' = Len(FilterPaths(paths))
    /\ index' = 1..Len(FilterPaths(paths))
    /\ r_index' = 1..Len(FilterPaths(paths))
    /\ UNCHANGED missing

\* mutant of pop: the id stays in the index of start points
pop_keep_index(idx) ==
    /\ index' = index
    /\ r_index' = r_index \ {idx}
    /\ len' = len - 1
    /\ missing' = missing \cup (IF idx \in r_index THEN {} ELSE {<<"r_index", idx>>})
    /\ UNCHANGED lines

\* mutant of pop: the count of the lines is left as it was
pop_keep_length(idx) ==
    /\ index' = index \ {idx}
    /\ r_index' = r_index \ {idx}
    /\ len' = len
    /\ missing' = missing
    /\ UNCHANGED lines

\* the deletes of pop(idx) that name an id its index does not hold
MissingOfPop(idx) ==
    (IF idx \in index THEN {} ELSE {<<"index", idx>>})
    \cup (IF idx \in r_index THEN {} ELSE {<<"r_index", idx>>})

\* mutant of pop: the id stays in the index of end points
pop_keep_r_index(idx) ==
    /\ index' = index \ {idx}
    /\ r_index' = r_index
    /\ len' = len - 1
    /\ missing' = missing \cup MissingOfPop(idx)
    /\ UNCHANGED lines

\* LineIndex.pop(idx)
pop(idx) ==
    /\ index' = index \ {idx}
    /\ r_index' = r_index \ {idx}
    /\ len' = len - 1
    /\ missing' = missing \cup MissingOfPop(idx)
    /\ UNCHANGED lines

\* ------------------------------------------------------------------ calls
\* `return value`, of type k: to the caller of the function, or, inside
\* optimize, `geometry = f(geometry)` for the stage f that was running
Return(value, k, stage) ==
    IF ret = "done"
    THEN /\ result' = value
         /\ pc' = "done"
         /\ UNCHANGED <<geometry, kind, trace>>
    ELSE /\ geometry' = value
         /\ kind' = k
         /\ trace' = Append(trace, <<stage, value, k>>)
         /\ pc' = ret
         /\ UNCHANGED result

\* ------------------------------------------------------- _sort_paths_single
\* entry: filter, count, early return or build the index
SortCall ==
    /\ pc = "sort_call"
    /\ LET path_list == FilterPaths(geometry)
           n_paths == IF impl = "shape_utils" THEN Len(path_list) ELSE Len(geometry)
       IN IF n_paths < 2
          THEN /\ Return(path_list, "MultiLineString", "sort")
               /\ UNCHANGED <<indexVars, out, pos>>
          ELSE /\ LineIndexInit(path_list)
               /\ out' = <<>>
               /\ pos' = ORIGIN
               /\ pc' = "sort_loop"
               /\ UNCHANGED callVars
    /\ UNCHANGED <<argVars, ret, joinVars>>

\* one iteration of `while len(line_index) > 0`
SortStep ==
    /\ pc = "sort_loop"
    /\ len > 0
    /\ \E found \in find_nearest(pos) :
         LET idx == found[1]
             reverse == found[2]
             next_line == IF reverse THEN reverse_path(lines[idx]) ELSE lines[idx]
         IN /\ idx # 0
            /\ pop(idx)
            /\ out' = Append(out, next_line)
            /\ pos' = Last(next_line)
    /\ UNCHANGED <<pc, argVars, ret, callVars, joinVars>>

\* the loop ends: return shapely.MultiLineString(out)
SortReturn ==
    /\ pc = "sort_loop"
    /\ len <= 0
    /\ Return(out, "MultiLineString", "sort")
    /\ UNCHANGED <<argVars, ret, indexVars, out, pos, joinVars>>

\* ------------------------------------------------------- _join_paths_single
\* entry: fewer than two paths of positive length are returned as they came
JoinCall ==
    /\ pc = "join_call"
    /\ LET paths_list == FilterPaths(geometry)
       IN IF Len(paths_list) < 2
          THEN /\ IF impl = "shape_utils"
                  THEN Return(paths_list, "list", "join")
                  ELSE Return(geometry, "MultiLineString", "join")
               /\ UNCHANGED <<indexVars, out>>
          ELSE /\ LineIndexInit(geometry)
               /\ out' = <<>>
               /\ pc' = "join_loop"
               /\ UNCHANGED callVars
    /\ UNCHANGED <<argVars, ret, pos, joinVars>>

\* `while len(line_index) > 1`: pop the next seed
JoinSeed ==
    /\ pc = "join_loop"
    /\ len > 1
    /\ \E i \in next_available_id :
         /\ pop(i)
         /\ path' = lines[i]
         /\ path_ids' = <<i>>
    /\ pc' = "join_extend"
    /\ UNCHANGED <<argVars, ret, callVars, out, pos, out_ids, gaps>>

\* the lookups of one pass of `while True`: the set of <<idx, reverse, flip>>,
\* flip telling that the match was found at the head of the seed
extension_found ==
    LET at_tail == find_nearest_within(Last(path), tolerance) \ {<<0, FALSE>>}
        at_head == find_nearest_within(First(path), tolerance) \ {<<0, FALSE>>}
    IN IF at_tail # {} THEN {<<f[1], f[2], FALSE>> : f \in at_tail}
       ELSE {<<f[1], f[2], TRUE>> : f \in at_head}

\* mutant of JoinWeld: the seed is emitted after its first weld
JoinWeld_once ==
    /\ pc = "join_extend"
    /\ \E found \in extension_found :
         LET idx == found[1]
             seed == IF found[3] THEN reverse_path(path) ELSE path
             seed_ids == IF found[3] THEN reverse_path(path_ids) ELSE path_ids
             extension == IF found[2] THEN reverse_path(lines[idx]) ELSE lines[idx]
         IN /\ pop(idx)
            /\ path' = _weld(seed, extension)
            /\ path_ids' = Append(seed_ids, idx)
            /\ gaps' = Append(gaps, distance(Last(seed), First(extension)))
            /\ out' = Append(out, _weld(seed, extension))
            /\ out_ids' = Append(out_ids, Append(seed_ids, idx))
    /\ pc' = "join_loop"
    /\ UNCHANGED <<argVars, ret, callVars, pos>>

\* a pass of `while True` that finds an extension and welds it to the seed
JoinWeld ==
    /\ pc = "join_extend"
    /\ \E found \in extension_found :
         LET idx == found[1]
             seed == IF found[3] THEN reverse_path(path) ELSE path
             seed_ids == IF found[3] THEN reverse_path(path_ids) ELSE path_ids
             extension == IF found[2] THEN reverse_path(lines[idx]) ELSE lines[idx]
         IN /\ pop(idx)
            /\ path' = _weld(seed, extension)
            /\ path_ids' = Append(seed_ids, idx)
            /\ gaps' = Append(gaps, distance(Last(seed), First(extension)))
    /\ UNCHANGED <<pc, argVars, ret, callVars, out, pos, out_ids>>

\* mutant of JoinEmit: the seed is appended twice
JoinEmit_twice ==
    /\ pc = "join_extend"
    /\ extension_found = {}
    /\ out' = Append(Append(out, path), path)
    /\ out_ids' = Append(Append(out_ids, path_ids), path_ids)
    /\ pc' = "join_loop"
    /\ UNCHANGED <<argVars, ret, callVars, indexVars, path, pos, path_ids, gaps>>

\* a pass of `while True` that finds nothing: break, out.append(path)
JoinEmit ==
    /\ pc = "join_extend"
    /\ extension_found = {}
    /\ out' = Append(out, path)
    /\ out_ids' = Append(out_ids, path_ids)
    /\ pc' = "join_loop"
    /\ UNCHANGED <<argVars, ret, callVars, indexVars, path, pos, path_ids, gaps>>

\* mutant of JoinTail: what is left is popped and dropped
JoinTail_drop ==
    /\ pc = "join_loop"
    /\ len <= 1
    /\ len > 0
    /\ \E i \in next_available_id : pop(i)
    /\ UNCHANGED <<pc, argVars, ret, callVars, out, path, pos, path_ids, out_ids, gaps>>

\* `while len(line_index) > 0`: what is left is appended as it is
JoinTail ==
    /\ pc = "join_loop"
    /\ len <= 1
    /\ len > 0
    /\ \E i \in next_available_id :
         /\ pop(i)
         /\ out' = Append(out, lines[i])
         /\ out_ids' = Append(out_ids, <<i>>)
    /\ UNCHANGED <<pc, argVars, ret, callVars, path, pos, path_ids, gaps>>

\* return shapely.MultiLineString(out)
JoinReturn ==
    /\ pc = "join_loop"
    /\ len <= 0
    /\ Return(out, "MultiLineString", "join")
    /\ UNCHANGED <<argVars, ret, indexVars, out, pos, joinVars>>

\* -------------------------------------------------------------------- _weld
\* path = _weld(path, extension), the two arguments held by `geometry`
WeldCall ==
    /\ pc = "weld_call"
    /\ result' = _weld(geometry[1], geometry[2])
    /\ pc' = "weld_done"
    /\ UNCHANGED <<argVars, ret, geometry, kind, trace, indexVars, out, pos, joinVars>>

\* ------------------------------------------------------------ reloop
\* a closed path restarted at its point number reloop_index (0-based)
Rotate(coordinates, reloop_index) ==
    LET open == SubSeq(coordinates, 1, Len(coordinates) - 1)
    IN SubSeq(open, reloop_index + 1, Len(open))
       \o SubSeq(open, 1, reloop_index)
       \o <<open[reloop_index + 1]>>

\* the paths the loop body of _reloop_paths_single can append for a linestring
Relooped(linestring) ==
    IF First(linestring) = Last(linestring)
    THEN {Rotate(linestring, i) : i \in 0..(Len(linestring) - 2)}
    ELSE {linestring}

\* the same segments, in either direction
SameLine(a, b) == a = b \/ a = reverse_path(b)

\* shapely.union_all(lines) for lines that meet each other at their end
\* points only: the lines of positive length, one line for each group of
\* equal lines, in an order that GEOS chooses; a single line comes back as a
\* LineString and no line at all as an empty GeometryCollection
union_all(ls) ==
    {[paths |-> u,
      kind |-> IF Len(u) = 0 THEN "GeometryCollection"
               ELSE IF Len(u) = 1 THEN "LineString" ELSE "MultiLineString"] :
        u \in {v \in UNION {[1..n -> {ls[i] : i \in 1..Len(ls)}] : n \in 0..Len(ls)} :
                 /\ \A i \in 1..Len(v) : NonDegenerate(v[i])
                 /\ \A i, j \in 1..Len(v) : SameLine(v[i], v[j]) => i = j
                 /\ \A k \in 1..Len(ls) :
                       NonDegenerate(ls[k]) => \E i \in 1..Len(v) : SameLine(v[i], ls[k])}}

RECURSIVE ReloopedLists(_)
\* the lists `lines` that the loop of _reloop_paths_single can build
ReloopedLists(parts) ==
    IF parts = <<>> THEN {<<>>}
    ELSE {<<h>> \o t : h \in Relooped(Head(parts)), t \in ReloopedLists(Tail(parts))}

\* _reloop_paths_single(geometry): the values it can return
_reloop_paths_single(parts) == UNION {union_all(ls) : ls \in ReloopedLists(parts)}

\* ------------------------------------------------------ delete short paths
\* mutant of _delete_short_paths_single: a path as long as min_length is dropped
_delete_short_paths_single_strict(parts, min_length) ==
    LET Keep(line) == length(line) > min_length
    IN SelectSeq(parts, Keep)

\* _delete_short_paths_single(geometry, min_length)
_delete_short_paths_single(parts, min_length) ==
    LET Keep(line) == length(line) >= min_length
    IN SelectSeq(parts, Keep)

\* ---------------------------------------------------------------- optimize
\* mutant of NextStage: short paths are deleted before the join
NextStage_delete_first(p) ==
    CASE p = "opt_reloop" -> "opt_delete"
      [] p = "opt_delete" -> "opt_join"
      [] p = "opt_join" -> "opt_sort"
      [] OTHER -> "opt_return"

\* the order of the stages of optimize
NextStage(p) ==
    CASE p = "opt_reloop" -> "opt_join"
      [] p = "opt_join" -> "opt_delete"
      [] p = "opt_delete" -> "opt_sort"
      [] OTHER -> "opt_return"

\* optimization.optimize has no `join` argument and always joins
JoinEnabled == IF impl = "shape_utils" THEN flags.join ELSE TRUE

\* optimization.py never imports numpy: the first statement of its
\* _reloop_paths_single, rng = np.random.default_rng(), raises NameError
NumpyImported == impl = "shape_utils"

\* if reloop: geometry = _reloop_paths(geometry)
OptReloop ==
    /\ pc = "opt_reloop"
    /\ IF flags.reloop /\ kind = "MultiLineString" /\ ~NumpyImported
       THEN /\ pc' = "NameError"
            /\ UNCHANGED <<geometry, kind, trace>>
       ELSE /\ pc' = NextStage("opt_reloop")
            /\ IF flags.reloop
               THEN \E r \in (IF kind = "MultiLineString"
                              THEN _reloop_paths_single(geometry)
                              ELSE {[paths |-> geometry, kind |-> kind]}) :
                      /\ geometry' = r.paths
                      /\ kind' = r.kind
                      /\ trace' = Append(trace, <<"reloop", r.paths, r.kind>>)
               ELSE UNCHANGED <<geometry, kind, trace>>
    /\ UNCHANGED <<argVars, ret, result, indexVars, out, pos, joinVars>>

\* if join: geometry = _join_paths(geometry, tolerance, pbar)
OptJoin ==
    /\ pc = "opt_join"
    /\ IF JoinEnabled
       THEN IF kind = "MultiLineString"
            THEN /\ pc' = "join_call"
                 /\ ret' = NextStage("opt_join")
                 /\ path_ids' = <<>>
                 /\ out_ids' = <<>>
                 /\ gaps' = <<>>
                 /\ UNCHANGED trace
            ELSE /\ pc' = NextStage("opt_join")
                 /\ trace' = Append(trace, <<"join", geometry, kind>>)
                 /\ UNCHANGED <<ret, path_ids, out_ids, gaps>>
       ELSE /\ pc' = NextStage("opt_join")
            /\ UNCHANGED <<ret, trace, path_ids, out_ids, gaps>>
    /\ UNCHANGED <<argVars, geometry, kind, result, indexVars, out, pos, path>>

\* if delete_small: geometry = _delete_short_paths(geometry, tolerance, pbar)
OptDelete ==
    /\ pc = "opt_delete"
    /\ IF flags.delete_small
       THEN LET value == IF kind = "MultiLineString"
                         THEN _delete_short_paths_single(geometry, tolerance)
                         ELSE geometry
            IN /\ geometry' = value
               /\ trace' = Append(trace, <<"delete_small", value, kind>>)
       ELSE UNCHANGED <<geometry, trace>>
    /\ pc' = NextStage("opt_delete")
    /\ UNCHANGED <<argVars, ret, kind, result, indexVars, out, pos, joinVars>>

\* if sort: geometry = _sort_paths(geometry, pbar)
OptSort ==
    /\ pc = "opt_sort"
    /\ IF flags.sort
       THEN IF kind = "MultiLineString"
            THEN /\ pc' = "sort_call"
                 /\ ret' = NextStage("opt_sort")
                 /\ UNCHANGED trace
            ELSE /\ pc' = NextStage("opt_sort")
                 /\ trace' = Append(trace, <<"sort", geometry, kind>>)
                 /\ UNCHANGED ret
       ELSE /\ pc' = NextStage("opt_sort")
            /\ UNCHANGED <<ret, trace>>
    /\ UNCHANGED <<argVars, geometry, kind, result, indexVars, out, pos, joinVars>>

\* return geometry
OptReturn ==
    /\ pc = "opt_return"
    /\ result' = geometry
    /\ pc' = "done"
    /\ UNCHANGED <<argVars, ret, geometry, kind, trace, indexVars, out, pos, joinVars>>

\* ------------------------------------------------ a stage on several layers
\* the single-layer function that _join_paths, _sort_paths and
\* _delete_short_paths call for a MultiLineString
StageCall ==
    CASE layer_stage = "join" -> "join_call"
      [] layer_stage = "sort" -> "sort_call"
      [] OTHER -> "delete_call"

\* _delete_short_paths_single(layer, min_length) called for one layer
DeleteCall ==
    /\ pc = "delete_call"
    /\ Return(_delete_short_paths_single(geometry, tolerance), "MultiLineString", "delete_small")
    /\ UNCHANGED <<argVars, ret, indexVars, out, pos, joinVars>>

\* mutant of LayersCall: the paths of all the layers are handed on as one layer
LayersCall_flat ==
    /\ pc = "layers_call"
    /\ kind = "GeometryCollection"
    /\ LET Flat[k \in 0..Len(geometry)] ==
               IF k = 0 THEN <<>> ELSE Flat[k - 1] \o geometry[k]
       IN /\ layers' = <<Flat[Len(geometry)]>>
          /\ geometry' = Flat[Len(geometry)]
          /\ kind' = "MultiLineString"
          /\ pc' = StageCall
          /\ UNCHANGED result
    /\ UNCHANGED <<optArgs, graphVars, otherVars, collected, layer_stage, ret, trace, indexVars, out, pos, joinVars>>

\* a stage given a GeometryCollection: layers = shapely.get_parts(geometry)
\* .tolist(), then the first element of the list comprehension
LayersCall ==
    /\ pc = "layers_call"
    /\ kind = "GeometryCollection"
    /\ layers' = geometry
    /\ IF geometry = <<>>
       THEN /\ result' = <<>>
            /\ pc' = "done"
            /\ UNCHANGED <<geometry, kind>>
       ELSE /\ geometry' = geometry[1]
            /\ kind' = "MultiLineString"
            /\ pc' = StageCall
            /\ UNCHANGED result
    /\ UNCHANGED <<optArgs, graphVars, otherVars, collected, layer_stage, ret, trace, indexVars, out, pos, joinVars>>

\* the call for one layer has returned: the next element of the list
\* comprehension, or shapely.GeometryCollection([...]) of the results
LayerDone ==
    /\ pc = "layer_done"
    /\ collected' = Append(collected, geometry)
    /\ IF Len(collected') < Len(layers)
       THEN /\ geometry' = layers[Len(collected') + 1]
            /\ kind' = "MultiLineString"
            /\ pc' = StageCall
            /\ UNCHANGED result
       ELSE /\ result' = collected'
            /\ geometry' = collected'
            /\ kind' = "GeometryCollection"
            /\ pc' = "done"
    /\ UNCHANGED <<optArgs, graphVars, otherVars, layers, layer_stage, ret, trace, indexVars, out, pos, joinVars>>

\* --------------------------------------------------------------- PathGraph
\* n ^ 1 of Python: the lowest bit of n flipped
Xor1(n) == IF n % 2 = 0 THEN n + 1 ELSE n - 1

\* mutant of get_disjoint: the xor is taken of i itself
get_disjoint_unshifted(i) == Xor1(i)

\* PathGraph.get_disjoint(i)
get_disjoint(i) == Xor1(i - 1) + 1

\* PathGraph.__init__: endpoints of the origin, then of each path and its reverse
PathGraphEndpoints(drawing, origin) ==
    [n \in 1..(2 * Len(drawing) + 1) |->
        IF n = 1 THEN <<origin, origin>>
        ELSE LET this == drawing[(n - 2) \div 2 + 1]
             IN IF (n - 2) % 2 = 0 THEN <<First(this), Last(this)>>
                ELSE <<Last(this), First(this)>>]

\* PathGraph.get_path(i)
get_path(i) ==
    LET idx == (i - 1) \div 2
        reverse == (i - 1) % 2
        this == graph_paths[idx + 1]
    IN IF reverse # 0 THEN reverse_path(this) ELSE this

\* PathGraph.iter_starts_with_index: the node numbers it yields
iter_starts_with_index == 1..(Len(endpoints) - 1)

\* collections.Counter of the elements of a sequence
Counter(seq) ==
    [key \in {seq[j] : j \in 1..Len(seq)} |-> Cardinality({j \in 1..Len(seq) : seq[j] = key})]

\* mutant of check_valid_solution: the nodes are compared as sets
check_valid_solution_as_sets(sol) ==
    {i \in iter_starts_with_index : i < get_disjoint(i)}
        = {IF sol[j] < get_disjoint(sol[j]) THEN sol[j] ELSE get_disjoint(sol[j]) :
              j \in 1..Len(sol)}

\* PathGraph.check_valid_solution(solution)
check_valid_solution(sol) ==
    LET expected == {i \in iter_starts_with_index : i < get_disjoint(i)}
        actual == Counter([j \in 1..Len(sol) |->
                      IF sol[j] < get_disjoint(sol[j]) THEN sol[j] ELSE get_disjoint(sol[j])])
        Count(c, key) == IF key \in DOMAIN c THEN c[key] ELSE 0
        difference == {key \in expected \cup DOMAIN actual :
                          (IF key \in expected THEN 1 ELSE 0) - Count(actual, key) # 0}
    IN difference = {}

\* get_route_from_solution(solution) is called
GetRouteCall ==
    /\ pc = "graph_built"
    /\ \E n \in 0..MaxSolution :
          \E sol \in [1..n -> 0..Len(endpoints)] : solution' = sol
    /\ pc' = "get_route"
    /\ UNCHANGED <<optState, otherVars, graph_paths, endpoints, route, path_index, location, yielded>>

\* get_route_from_solution: the assert, then the paths of the nodes
GetRouteFromSolution ==
    /\ pc = "get_route"
    /\ IF check_valid_solution(solution)
       THEN /\ route' = [j \in 1..Len(solution) |-> get_path(solution[j])]
            /\ pc' = "route_returned"
       ELSE /\ pc' = "AssertionError"
            /\ UNCHANGED route
    /\ UNCHANGED <<optState, otherVars, graph_paths, endpoints, solution, path_index, location, yielded>>

\* --------------------------------------------------------------- PathIndex
\* PathIndex.get_nearest(coordinate): the nodes it can return
get_nearest(coordinate) ==
    {i \in path_index : \A j \in path_index :
        distance(coordinate, endpoints[i + 1][1]) <= distance(coordinate, endpoints[j + 1][1])}

\* mutant of delete_pair: the node of the opposite direction stays in the index
delete_pair_keep_disjoint(i) == {i}

\* PathIndex.delete_pair(index): the nodes it deletes, one after the other
delete_pair(i) == {i, get_disjoint(i)}

\* greedy_walk(path_graph) is called: PathIndex(path_graph), location
GreedyWalkCall ==
    /\ pc = "graph_built"
    /\ path_index' = iter_starts_with_index
    /\ location' = endpoints[1][1]
    /\ yielded' = <<>>
    /\ pc' = "greedy_walk"
    /\ UNCHANGED <<optState, otherVars, graph_paths, endpoints, solution, route>>

\* a turn of `while True` that finds a node: yield next_point
GreedyWalkStep ==
    /\ pc = "greedy_walk"
    /\ \E next_point \in get_nearest(location) :
          /\ location' = endpoints[next_point + 1][2]
          /\ path_index' = path_index \ delete_pair(next_point)
          /\ missing' = missing \cup {<<"PathIndex", i>> : i \in delete_pair(next_point) \ path_index}
          /\ yielded' = Append(yielded, next_point)
    /\ UNCHANGED <<pc, optCore, otherVars, graph_paths, endpoints, solution, route>>

\* get_nearest on the empty index: StopIteration, break, the generator ends
GreedyWalkStop ==
    /\ pc = "greedy_walk"
    /\ get_nearest(location) = {}
    /\ pc' = "walk_done"
    /\ UNCHANGED <<optState, otherVars, graphVars>>

\* ----------------------------------------------------------------- metrics
\* metrics(drawing) of shape_utils for a MultiLineString
metrics(drawing) ==
    [pen_down_dist |-> total_length(drawing),
     pen_up_dist |-> up_length(drawing),
     path_count |-> Len(drawing)]

RECURSIVE DrawingUpLength(_)
\* Drawing.up_length: for each layer the way from the origin to the first path,
\* between the paths, and from the last path back to the origin
DrawingUpLength(geometry_collection) ==
    IF geometry_collection = <<>> THEN 0
    ELSE LET layer == Head(geometry_collection)
             pen_position == IF layer = <<>> THEN ORIGIN ELSE Last(layer[Len(layer)])
         IN up_length(layer) + distance(pen_position, ORIGIN)
            + DrawingUpLength(Tail(geometry_collection))

\* up_length(drawing) is called
MeasureUpLength ==
    /\ pc = "metrics"
    /\ "up_length" \notin DOMAIN measured
    /\ measured' = ("up_length" :> up_length(geometry)) @@ measured
    /\ UNCHANGED <<pc, optState, graphVars, drawVars, turtleVars, deviceVars>>

\* metrics(drawing).pen_up_dist is read
MeasureMetrics ==
    /\ pc = "metrics"
    /\ "metrics" \notin DOMAIN measured
    /\ measured' = ("metrics" :> metrics(geometry).pen_up_dist) @@ measured
    /\ UNCHANGED <<pc, optState, graphVars, drawVars, turtleVars, deviceVars>>

\* Drawing(drawing).up_length is read
MeasureDrawing ==
    /\ pc = "metrics"
    /\ "Drawing.up_length" \notin DOMAIN measured
    /\ measured' = ("Drawing.up_length" :> DrawingUpLength(<<geometry>>)) @@ measured
    /\ UNCHANGED <<pc, optState, graphVars, drawVars, turtleVars, deviceVars>>

\* -------------------------------------------------------------------- draw
\* the methods that class Device defines
DeviceMethods ==
    {"close", "move", "goto", "home", "version", "enable_motors", "disable_motors",
     "motor_status", "zero_position", "read_position", "stepper_move", "wait",
     "run_plan", "run_path", "run_layer", "pen_up", "pen_down"}

\* the object draw talks to has the method: a Device, or an object of the
\* caller's that defines every method draw calls
HasMethod(device, name) == device = "custom" \/ name \in DeviceMethods

\* the x (axis 1) or y (axis 2) coordinates of the points of the layers
Coordinates(ls, axis) ==
    UNION {UNION {{ls[i][j][k][axis] : k \in 1..Len(ls[i][j])} : j \in 1..Len(ls[i])} :
              i \in 1..Len(ls)}

\* min and max of layer.bounds over the layers, against the page
OutOfBounds(ls, width, height) ==
    LET xs == Coordinates(ls, 1)
        ys == Coordinates(ls, 2)
        min_x == CHOOSE x \in xs : \A o \in xs : x <= o
        min_y == CHOOSE y \in ys : \A o \in ys : y <= o
        max_x == CHOOSE x \in xs : \A o \in xs : x >= o
        max_y == CHOOSE y \in ys : \A o \in ys : y >= o
    IN min_x < 0 \/ min_y < 0 \/ max_x > width \/ max_y > height

\* draw, up to the preview: the layers' bounds, the warning, render
DrawCall ==
    /\ pc = "draw_call"
    /\ out_of_bounds' = OutOfBounds(plot_layers, draw_args.width, draw_args.height)
    /\ events' = (IF out_of_bounds' THEN <<<<"warn", 0>>>> ELSE <<>>)
                   \o (IF draw_args.preview THEN <<<<"render", 0>>>> ELSE <<>>)
    /\ pc' = "draw_plot"
    /\ UNCHANGED <<optState, graphVars, metricVars, turtleVars, deviceVars, draw_args, plot_layers, layer_no, retrace_no>>

\* mutant of DrawPlot: a drawing out of bounds is plotted all the same
DrawPlot_unchecked ==
    /\ pc = "draw_plot"
    /\ IF ~draw_args.plot THEN pc' = "draw_returned" /\ UNCHANGED events
       ELSE IF ~draw_args.available THEN pc' = "AxidrawNotFoundError" /\ UNCHANGED events
       ELSE /\ events' = IF draw_args.device = "None"
                         THEN Append(events, <<"Device()", 0>>) ELSE events
            /\ pc' = IF ~HasMethod(draw_args.device, "powered_on") THEN "AttributeError"
                     ELSE IF ~draw_args.powered THEN "AxidrawNotFoundError"
                     ELSE "draw_start"
    /\ UNCHANGED <<optState, graphVars, metricVars, turtleVars, deviceVars, draw_args, plot_layers, out_of_bounds,
                   layer_no, retrace_no>>

\* draw, from `if not plot` to the call of device.powered_on()
DrawPlot ==
    /\ pc = "draw_plot"
    /\ IF ~draw_args.plot THEN pc' = "draw_returned" /\ UNCHANGED events
       ELSE IF out_of_bounds THEN pc' = "DrawingOutOfBoundsError" /\ UNCHANGED events
       ELSE IF ~draw_args.available THEN pc' = "AxidrawNotFoundError" /\ UNCHANGED events
       ELSE /\ events' = IF draw_args.device = "None"
                         THEN Append(events, <<"Device()", 0>>) ELSE events
            /\ pc' = IF ~HasMethod(draw_args.device, "powered_on") THEN "AttributeError"
                     ELSE IF ~draw_args.powered THEN "AxidrawNotFoundError"
                     ELSE "draw_start"
    /\ UNCHANGED <<optState, graphVars, metricVars, turtleVars, deviceVars, draw_args, plot_layers, out_of_bounds,
                   layer_no, retrace_no>>

\* device.zero_position(), device.enable_motors(), device.pen_up(), and the
\* first turn of the loop over the layers
DrawStart ==
    /\ pc = "draw_start"
    /\ events' = events \o <<<<"zero_position", 0>>, <<"enable_motors", 0>>, <<"pen_up", 0>>>>
    /\ layer_no' = 1
    /\ pc' = "draw_input"
    /\ UNCHANGED <<optState, graphVars, metricVars, turtleVars, deviceVars, draw_args, plot_layers, out_of_bounds,
                   retrace_no>>

\* input("Press enter when you're ready to draw ...") has returned
DrawInput ==
    /\ pc = "draw_input"
    /\ events' = Append(events, <<"input", layer_no>>)
    /\ retrace_no' = 0
    /\ pc' = "draw_retrace"
    /\ UNCHANGED <<optState, graphVars, metricVars, turtleVars, deviceVars, draw_args, plot_layers, out_of_bounds,
                   layer_no>>

\* device.run_layer(layer, label), one turn of the loop over range(retrace)
DrawRunLayer ==
    /\ pc = "draw_retrace"
    /\ retrace_no < draw_args.retrace
    /\ events' = Append(events, <<"run_layer", layer_no>>)
    /\ retrace_no' = retrace_no + 1
    /\ UNCHANGED <<pc, optState, graphVars, metricVars, turtleVars, deviceVars, draw_args, plot_layers,
                   out_of_bounds, layer_no>>

\* range(retrace) is used up: the next layer, or device.disable_motors()
DrawNextLayer ==
    /\ pc = "draw_retrace"
    /\ retrace_no >= draw_args.retrace
    /\ IF layer_no < Len(plot_layers)
       THEN /\ layer_no' = layer_no + 1
            /\ pc' = "draw_input"
            /\ UNCHANGED events
       ELSE /\ events' = Append(events, <<"disable_motors", 0>>)
            /\ pc' = "draw_returned"
            /\ UNCHANGED layer_no
    /\ UNCHANGED <<optState, graphVars, metricVars, turtleVars, deviceVars, draw_args, plot_layers, out_of_bounds,
                   retrace_no>>

\* ------------------------------------------------------------------ Turtle
\* what no method of the turtle changes
notTurtle == <<optState, graphVars, metricVars, drawVars, deviceVars>>

\* the points the turtle is sent to
TurtlePts == {<<0, 0>>, <<3, 0>>, <<3, 4>>}

\* a method of the turtle is called: one more call, and which
Called(name) ==
    /\ pc = "turtle"
    /\ ops < MaxOps
    /\ ops' = ops + 1
    /\ last_op' = [name |-> name, from |-> _state.position, at_push |-> <<>>, depth |-> 0]

\* raise_pen: _lines after `if len(self._current_line) > 1: self._lines.append(...)`
RaisedLines == IF Len(_current_line) > 1 THEN Append(_lines, _current_line) ELSE _lines

\* Turtle.goto(x, y); forward and backward are calls of goto
Goto ==
    /\ Called("goto")
    /\ \E new_pos \in TurtlePts :
          /\ _current_line' = IF _state.pen_down THEN Append(_current_line, new_pos)
                              ELSE _current_line
          /\ moves' = IF _state.pen_down THEN Append(moves, <<_state.position, new_pos>>)
                      ELSE moves
          /\ _state' = [_state EXCEPT !.position = new_pos]
    /\ UNCHANGED <<pc, notTurtle, _stack, _lines, returned, pushed>>

\* Turtle.turn_right(angle); turn and turn_left are calls of turn_right
TurnRight ==
    /\ Called("turn_right")
    /\ \E angle \in {1} : _state' = [_state EXCEPT !.heading = @ + angle]
    /\ UNCHANGED <<pc, notTurtle, _stack, _current_line, _lines, returned, pushed, moves>>

\* Turtle.raise_pen()
RaisePen ==
    /\ Called("raise_pen")
    /\ _lines' = RaisedLines
    /\ _current_line' = <<_state.position>>
    /\ _state' = [_state EXCEPT !.pen_down = FALSE]
    /\ UNCHANGED <<pc, notTurtle, _stack, returned, pushed, moves>>

\* Turtle.lower_pen()
LowerPen ==
    /\ Called("lower_pen")
    /\ _current_line' = <<_state.position>>
    /\ _state' = [_state EXCEPT !.pen_down = TRUE]
    /\ UNCHANGED <<pc, notTurtle, _stack, _lines, returned, pushed, moves>>

\* Turtle.push()
Push ==
    /\ Called("push")
    /\ _stack' = Append(_stack, _state)
    /\ pushed' = Append(pushed, [state |-> _state, depth |-> Len(_stack)])
    /\ UNCHANGED <<pc, notTurtle, _state, _current_line, _lines, returned, moves>>

\* mutant of Pop: the line in progress is not started afresh at the restored position
Pop_keep_current_line ==
    /\ pc = "turtle"
    /\ ops < MaxOps
    /\ ops' = ops + 1
    /\ _lines' = RaisedLines
    /\ IF _stack = <<>>
       THEN /\ pc' = "IndexError"
            /\ _current_line' = <<_state.position>>
            /\ _state' = [_state EXCEPT !.pen_down = FALSE]
            /\ last_op' = [name |-> "pop", from |-> _state.position, at_push |-> <<>>, depth |-> 0]
            /\ UNCHANGED <<_stack, pushed>>
       ELSE /\ _state' = _stack[Len(_stack)]
            /\ _stack' = SubSeq(_stack, 1, Len(_stack) - 1)
            /\ _current_line' = <<_state.position>>
            /\ last_op' = [name |-> "pop", from |-> _state.position,
                           at_push |-> pushed[Len(pushed)].state,
                           depth |-> pushed[Len(pushed)].depth]
            /\ pushed' = SubSeq(pushed, 1, Len(pushed) - 1)
            /\ UNCHANGED pc
    /\ UNCHANGED <<notTurtle, returned, moves>>

\* Turtle.pop(): raise_pen, the state taken off the stack, and a new line in
\* progress if the pen is down again; on an empty stack list.pop raises
Pop ==
    /\ pc = "turtle"
    /\ ops < MaxOps
    /\ ops' = ops + 1
    /\ _lines' = RaisedLines
    /\ IF _stack = <<>>
       THEN /\ pc' = "IndexError"
            /\ _current_line' = <<_state.position>>
            /\ _state' = [_state EXCEPT !.pen_down = FALSE]
            /\ last_op' = [name |-> "pop", from |-> _state.position, at_push |-> <<>>, depth |-> 0]
            /\ UNCHANGED <<_stack, pushed>>
       ELSE /\ _state' = _stack[Len(_stack)]
            /\ _stack' = SubSeq(_stack, 1, Len(_stack) - 1)
            /\ _current_line' = IF _state'.pen_down THEN <<_state'.position>>
                                ELSE <<_state.position>>
            /\ last_op' = [name |-> "pop", from |-> _state.position,
                           at_push |-> pushed[Len(pushed)].state,
                           depth |-> pushed[Len(pushed)].depth]
            /\ pushed' = SubSeq(pushed, 1, Len(pushed) - 1)
            /\ UNCHANGED pc
    /\ UNCHANGED <<notTurtle, returned, moves>>

\* Turtle.drawing(): with the pen down raise_pen and lower_pen, then the lines
Drawing ==
    /\ Called("drawing")
    /\ IF _state.pen_down
       THEN /\ _lines' = RaisedLines
            /\ _current_line' = <<_state.position>>
       ELSE UNCHANGED <<_lines, _current_line>>
    /\ returned' = _lines'
    /\ UNCHANGED <<pc, notTurtle, _state, _stack, pushed, moves>>

\* ------------------------------------------------------------------ Device
\* what no method of the device changes
notDevice == <<optState, graphVars, metricVars, drawVars, turtleVars>>

\* the whole steps in x, a number of 1/StepUnit of a step: towards zero
Trunc(x) == IF x >= 0 THEN x \div StepUnit ELSE -((-x) \div StepUnit)

\* mutant of modf: the fractional part is thrown away
modf_whole_only(x) == <<0, Trunc(x)>>

\* math.modf(x): <<fractional part, whole part>>, both with the sign of x
modf(x) == <<x - StepUnit * Trunc(x), Trunc(x)>>

\* d * steps_per_unit of one timeslice, for x and for y; what a plan makes
\* the pen do in a timeslice is the planner's matter
Displacements ==
    {<<dx, dy>> : dx \in {-(StepUnit + 1), -1, 0, StepUnit - 1, StepUnit + 2},
                  dy \in {-(StepUnit - 1), 0, StepUnit + 1}}

\* run_plan(plan) is called: step_s, t = 0
RunPlanCall ==
    /\ pc = "device"
    /\ plans_run < MaxPlans
    /\ plans_run' = plans_run + 1
    /\ \E n \in 0..MaxSlices : plan_t' = n
    /\ slice_no' = 0
    /\ pc' = "run_plan"
    /\ UNCHANGED <<notDevice, error, sent, ideal, queue, planning>>

\* a turn of `while t < plan.t`: the displacement, modf, stepper_move
RunPlanSlice ==
    /\ pc = "run_plan"
    /\ slice_no < plan_t
    /\ \E d \in Displacements :
          LET x == modf(d[1] + error[1])
              y == modf(d[2] + error[2])
          IN /\ error' = <<x[1], y[1]>>
             /\ sent' = <<sent[1] + x[2], sent[2] + y[2]>>
             /\ ideal' = <<ideal[1] + d[1], ideal[2] + d[2]>>
    /\ slice_no' = slice_no + 1
    /\ UNCHANGED <<pc, notDevice, plan_t, plans_run, queue, planning>>

\* t has reached plan.t: run_plan returns
RunPlanReturn ==
    /\ pc = "run_plan"
    /\ slice_no >= plan_t
    /\ pc' = "device"
    /\ UNCHANGED <<notDevice, deviceVars>>

\* run_layer, up to p.start(): the planners, the queue, the coordinate lists
\* and the process that runs plan_layer_proc
RunLayerCall ==
    /\ pc = "run_layer_call"
    /\ queue' = <<>>
    /\ planning' = [at |-> "jog", coord_no |-> 1, position |-> ORIGIN]
    /\ pc' = "run_layer_bar"
    /\ UNCHANGED <<notDevice, planVars>>

\* bar = tqdm(total=layer.length + elkplot.up_length(layer).m, ...): up_length
\* returns a number, and a number has no attribute m
RunLayerBar ==
    /\ pc = "run_layer_bar"
    /\ pc' = "AttributeError"
    /\ UNCHANGED <<notDevice, deviceVars>>

\* plan_layer_proc: the jog to the start of the next path is planned and put
PlanJog ==
    /\ planning # <<>>
    /\ planning.at = "jog"
    /\ planning.coord_no <= Len(geometry)
    /\ LET coord_list == geometry[planning.coord_no]
       IN queue' = Append(queue, <<"jog", planning.coord_no,
                                   distance(planning.position, First(coord_list))>>)
    /\ planning' = [planning EXCEPT !.at = "draw"]
    /\ UNCHANGED <<pc, notDevice, planVars>>

\* plan_layer_proc: the path is planned and put, position = coord_list[-1]
PlanDraw ==
    /\ planning # <<>>
    /\ planning.at = "draw"
    /\ LET coord_list == geometry[planning.coord_no]
       IN /\ queue' = Append(queue, <<"draw", planning.coord_no, length(coord_list)>>)
          /\ planning' = [at |-> "jog", coord_no |-> planning.coord_no + 1,
                          position |-> Last(coord_list)]
    /\ UNCHANGED <<pc, notDevice, planVars>>

\* plan_layer_proc: the loop is over, queue.put(("DONE", 0))
PlanDone ==
    /\ planning # <<>>
    /\ planning.at = "jog"
    /\ planning.coord_no > Len(geometry)
    /\ queue' = Append(queue, <<"DONE", 0, 0>>)
    /\ planning' = [planning EXCEPT !.at = "exited"]
    /\ UNCHANGED <<pc, notDevice, planVars>>

\* ------------------------------------------------------------ inputs
\* the two-point paths between points of P, the zero-length ones included
Segments(P) == {<<p, q>> : p \in P, q \in P}

RECURSIVE Layers(_, _)
\* the layers of at most n paths taken from pool
Layers(pool, n) ==
    IF n = 0 THEN {<<>>}
    ELSE Layers(pool, n - 1)
         \cup {Append(l, p) : l \in {m \in Layers(pool, n - 1) : Len(m) = n - 1}, p \in pool}

\* the inputs of the calls of _join_paths_single
JoinPts == {<<3, 0>>, <<0, 4>>, <<3, 4>>}

Tolerances == {-1, 0, 3, 6}

\* draw has not been called
NoDraw ==
    /\ draw_args = <<>>
    /\ plot_layers = <<>>
    /\ out_of_bounds = FALSE
    /\ layer_no = 0
    /\ retrace_no = 0
    /\ events = <<>>

\* there is no turtle
NoTurtle ==
    /\ _state = <<>>
    /\ _stack = <<>>
    /\ _current_line = <<>>
    /\ _lines = <<>>
    /\ returned = <<>>
    /\ ops = 0
    /\ pushed = <<>>
    /\ moves = <<>>
    /\ last_op = <<>>

\* greedy_walk has not been called, no delete has gone wrong
NoWalk ==
    /\ path_index = {}
    /\ location = ORIGIN
    /\ yielded = <<>>
    /\ missing = {}

\* no Device has been built
NoDevice ==
    /\ error = <<0, 0>>
    /\ plan_t = 0
    /\ slice_no = 0
    /\ sent = <<0, 0>>
    /\ ideal = <<0, 0>>
    /\ plans_run = 0
    /\ queue = <<>>
    /\ planning = <<>>

\* nothing has been measured or drawn
NoOthers ==
    /\ measured = <<>>
    /\ NoDraw
    /\ NoTurtle
    /\ NoDevice

\* no PathGraph has been built, nothing measured
NoGraph ==
    /\ graph_paths = <<>>
    /\ endpoints = <<>>
    /\ solution = <<>>
    /\ route = <<>>
    /\ NoWalk
    /\ NoOthers

\* the state before anything has run
Fresh ==
    /\ lines = <<>>
    /\ index = {}
    /\ r_index = {}
    /\ len = 0
    /\ out = <<>>
    /\ path = <<>>
    /\ pos = ORIGIN
    /\ result = <<>>
    /\ path_ids = <<>>
    /\ out_ids = <<>>
    /\ gaps = <<>>
    /\ kind = "MultiLineString"
    /\ trace = <<>>
    /\ input = geometry
    /\ layers = <<>>
    /\ collected = <<>>
    /\ layer_stage = "none"
    /\ NoGraph

NoFlags == [sort |-> FALSE, reloop |-> FALSE, delete_small |-> FALSE]

\* optimization._sort_paths_single(geometry) is called
InitSort ==
    /\ pc = "sort_call"
    /\ ret = "done"
    /\ impl = "optimization"
    /\ flags = NoFlags
    /\ geometry \in Layers(Segments(Pts), MaxPaths)
    /\ tolerance = 0
    /\ Fresh

NextSort == SortCall \/ SortStep \/ SortReturn

SpecSort == InitSort /\ [][NextSort]_vars

\* three segments on the x axis: the first at the origin, the second one unit
\* on, the third drawn towards the second
WalkScenario ==
    <<<<<<0, 0>>, <<1, 0>>>>, <<<<2, 0>>, <<3, 0>>>>, <<<<5, 0>>, <<4, 0>>>>>>

\* the segments of the scenario and the same segments backwards
WalkPool ==
    {WalkScenario[i] : i \in 1..3} \cup {reverse_path(WalkScenario[i]) : i \in 1..3}

\* optimization._sort_paths_single(geometry) is called with segments of one line
InitWalk ==
    /\ pc = "sort_call"
    /\ ret = "done"
    /\ impl = "optimization"
    /\ flags = NoFlags
    /\ geometry \in Layers(WalkPool, MaxPaths)
    /\ tolerance = 0
    /\ Fresh

SpecWalk == InitWalk /\ [][NextSort]_vars

\* optimization._join_paths_single(geometry, tolerance) is called
InitJoin ==
    /\ pc = "join_call"
    /\ ret = "done"
    /\ impl = "optimization"
    /\ flags = NoFlags
    /\ geometry \in Layers(Segments(JoinPts), MaxPaths)
    /\ tolerance \in Tolerances
    /\ Fresh

NextJoin == JoinCall \/ JoinSeed \/ JoinWeld \/ JoinEmit \/ JoinTail \/ JoinReturn

SpecJoin == InitJoin /\ [][NextJoin]_vars

\* the paths of two to n points
PathsUpTo(P, n) == UNION {[1..k -> P] : k \in 2..n}

\* _weld(a, b) is called with two paths
InitWeld ==
    /\ pc = "weld_call"
    /\ ret = "done"
    /\ impl = "optimization"
    /\ flags = NoFlags
    /\ geometry \in PathsUpTo(JoinPts, MaxPoints) \X PathsUpTo(JoinPts, MaxPoints)
    /\ tolerance = 0
    /\ Fresh

NextWeld == WeldCall

SpecWeld == InitWeld /\ [][NextWeld]_vars

\* ----------------------------------------------------- inputs of optimize
\* a closed path: the triangle (3,0), (3,4), (0,4)
Ring == <<<<3, 0>>, <<3, 4>>, <<0, 4>>, <<3, 0>>>>

OptPts == {<<0, 0>>, <<3, 0>>, <<3, 4>>}

OptPool == Segments(OptPts) \cup {Ring}

OptTolerances == {0, 4}

\* twice the signed area of the triangle o, a, b
Cross(o, a, b) == (a[1] - o[1]) * (b[2] - o[2]) - (a[2] - o[2]) * (b[1] - o[1])

Sign(x) == IF x > 0 THEN 1 ELSE IF x < 0 THEN -1 ELSE 0

Min(a, b) == IF a < b THEN a ELSE b
Max(a, b) == IF a > b THEN a ELSE b

\* r, collinear with p and q, lies on the segment p q
OnSegment(p, q, r) ==
    /\ Min(p[1], q[1]) <= r[1] /\ r[1] <= Max(p[1], q[1])
    /\ Min(p[2], q[2]) <= r[2] /\ r[2] <= Max(p[2], q[2])

\* the segments p1 p2 and p3 p4 have a point in common
SegmentsMeet(p1, p2, p3, p4) ==
    LET d1 == Sign(Cross(p3, p4, p1))
        d2 == Sign(Cross(p3, p4, p2))
        d3 == Sign(Cross(p1, p2, p3))
        d4 == Sign(Cross(p1, p2, p4))
    IN \/ (d1 * d2 < 0 /\ d3 * d4 < 0)
       \/ (d1 = 0 /\ OnSegment(p3, p4, p1))
       \/ (d2 = 0 /\ OnSegment(p3, p4, p2))
       \/ (d3 = 0 /\ OnSegment(p1, p2, p3))
       \/ (d4 = 0 /\ OnSegment(p1, p2, p4))

\* the paths a and b meet, if at all, at one end point of each
MeetAtEndsOnly(a, b) ==
    \A i \in 1..(Len(a) - 1), j \in 1..(Len(b) - 1) :
        SegmentsMeet(a[i], a[i + 1], b[j], b[j + 1]) =>
            \E x \in {a[i], a[i + 1]} \cap {b[j], b[j + 1]} :
                /\ Cross(a[i], a[i + 1], b[j]) # 0 \/ Cross(a[i], a[i + 1], b[j + 1]) # 0
                /\ (x = a[i] => i = 1) /\ (x = a[i + 1] => i = Len(a) - 1)
                /\ (x = b[j] => j = 1) /\ (x = b[j + 1] => j = Len(b) - 1)

\* the layers union_all is modelled for: lines that need no noding
NodingFree(layer) ==
    \A i, j \in 1..Len(layer) :
        (i # j /\ NonDegenerate(layer[i]) /\ NonDegenerate(layer[j])) =>
            SameLine(layer[i], layer[j]) \/ MeetAtEndsOnly(layer[i], layer[j])

\* optimize(geometry, tolerance, ...) of either module is called
InitOptimize ==
    /\ pc = "opt_reloop"
    /\ ret = "done"
    /\ impl \in {"optimization", "shape_utils"}
    /\ flags \in IF impl = "shape_utils"
                THEN [sort : BOOLEAN, reloop : BOOLEAN, delete_small : BOOLEAN, join : BOOLEAN]
                ELSE [sort : BOOLEAN, reloop : BOOLEAN, delete_small : BOOLEAN]
    /\ geometry \in {l \in Layers(OptPool, MaxOptPaths) : NodingFree(l)}
    /\ tolerance \in OptTolerances
    /\ Fresh

NextOptimize ==
    \/ OptReloop \/ OptJoin \/ OptDelete \/ OptSort \/ OptReturn
    \/ JoinCall \/ JoinSeed \/ JoinWeld \/ JoinEmit \/ JoinTail \/ JoinReturn
    \/ SortCall \/ SortStep \/ SortReturn

SpecOptimize == InitOptimize /\ [][NextOptimize]_vars

\* ------------------------------------------- inputs of a multi-layer stage
LayerPool == {<<<<0, 0>>, <<3, 0>>>>, <<<<3, 0>>, <<3, 4>>>>}

\* the tolerances tried with each stage; sort takes none
LayerTolerances(st) ==
    CASE st = "join" -> {-1, 0}
      [] st = "delete_small" -> {0, 4}
      [] OTHER -> {0}

\* _join_paths, _sort_paths or _delete_short_paths of optimization.py is
\* called with a GeometryCollection of MultiLineStrings
InitLayers ==
    /\ pc = "layers_call"
    /\ ret = "layer_done"
    /\ impl = "optimization"
    /\ flags = NoFlags
    /\ layer_stage \in {"join", "sort", "delete_small"}
    /\ geometry \in Layers(Layers(LayerPool, MaxLayerPaths), MaxLayers)
    /\ kind = "GeometryCollection"
    /\ tolerance \in LayerTolerances(layer_stage)
    /\ input = geometry
    /\ layers = <<>>
    /\ collected = <<>>
    /\ NoGraph
    /\ lines = <<>>
    /\ index = {}
    /\ r_index = {}
    /\ len = 0
    /\ out = <<>>
    /\ path = <<>>
    /\ pos = ORIGIN
    /\ result = <<>>
    /\ path_ids = <<>>
    /\ out_ids = <<>>
    /\ gaps = <<>>
    /\ trace = <<>>

NextLayers ==
    \/ LayersCall \/ LayerDone \/ DeleteCall
    \/ JoinCall \/ JoinSeed \/ JoinWeld \/ JoinEmit \/ JoinTail \/ JoinReturn
    \/ SortCall \/ SortStep \/ SortReturn

SpecLayers == InitLayers /\ [][NextLayers]_vars

\* --------------------------------------------------- inputs of a PathGraph
GraphPool == {<<<<0, 0>>, <<3, 0>>>>, <<<<3, 4>>, <<3, 0>>>>, <<<<0, 4>>, <<0, 4>>>>}

\* PathGraph(drawing) has been built from a drawing of at least one path
InitGraph ==
    /\ pc = "graph_built"
    /\ graph_paths \in Layers(GraphPool, MaxGraphPaths) \ {<<>>}
    /\ endpoints = PathGraphEndpoints(graph_paths, ORIGIN)
    /\ solution = <<>>
    /\ route = <<>>
    /\ NoWalk
    /\ ret = "done"
    /\ impl = "optimization"
    /\ flags = NoFlags
    /\ geometry = <<>>
    /\ tolerance = 0
    /\ lines = <<>>
    /\ index = {}
    /\ r_index = {}
    /\ len = 0
    /\ out = <<>>
    /\ path = <<>>
    /\ pos = ORIGIN
    /\ result = <<>>
    /\ path_ids = <<>>
    /\ out_ids = <<>>
    /\ gaps = <<>>
    /\ kind = "MultiLineString"
    /\ trace = <<>>
    /\ input = <<>>
    /\ layers = <<>>
    /\ collected = <<>>
    /\ layer_stage = "none"
    /\ NoOthers

NextGraph ==
    \/ GetRouteCall \/ GetRouteFromSolution
    \/ GreedyWalkCall \/ GreedyWalkStep \/ GreedyWalkStop

SpecGraph == InitGraph /\ [][NextGraph]_vars

\* ------------------------------------------- order and merge run to the end
TerminatePool == LayerPool \cup {<<<<0, 4>>, <<0, 4>>>>}

\* _join_paths_single or _sort_paths_single is called, or a PathGraph is
\* there for greedy_walk
InitTerminate ==
    \/ InitGraph
    \/ /\ pc \in {"join_call", "sort_call"}
       /\ ret = "done"
       /\ impl = "optimization"
       /\ flags = NoFlags
       /\ geometry \in Layers(TerminatePool, MaxPaths)
       /\ tolerance \in (IF pc = "join_call" THEN {-1, 0, 3} ELSE {0})
       /\ Fresh

NextTerminate ==
    \/ JoinCall \/ JoinSeed \/ JoinWeld \/ JoinEmit \/ JoinTail \/ JoinReturn
    \/ SortCall \/ SortStep \/ SortReturn
    \/ GreedyWalkCall \/ GreedyWalkStep \/ GreedyWalkStop

\* a call that has started goes on step by step: nothing else runs, nothing waits
SpecTerminate == InitTerminate /\ [][NextTerminate]_vars /\ WF_vars(NextTerminate)

\* ------------------------------------------------- inputs of the metrics
\* a layer whose pen-up distance is asked for
InitMetrics ==
    /\ pc = "metrics"
    /\ ret = "done"
    /\ impl = "shape_utils"
    /\ flags = NoFlags
    /\ geometry \in Layers(Segments(JoinPts), MaxPaths)
    /\ tolerance = 0
    /\ Fresh

NextMetrics == MeasureUpLength \/ MeasureMetrics \/ MeasureDrawing

SpecMetrics == InitMetrics /\ [][NextMetrics]_vars

\* ------------------------------------------------------- inputs of draw
\* one layer inside a page of 3 by 3, one that leaves it
DrawLayerPool == {<<<<<<0, 0>>, <<3, 0>>>>>>, <<<<<<3, 0>>, <<3, 4>>>>>>}

\* draw(drawing, width, height, preview=..., plot=..., retrace=..., device=...)
\* is called with a list of non-empty layers
InitDraw ==
    /\ pc = "draw_call"
    /\ plot_layers \in Layers(DrawLayerPool, MaxLayers) \ {<<>>}
    /\ draw_args \in [width : {3}, height : {3}, preview : BOOLEAN, plot : BOOLEAN,
                      retrace : 0..MaxRetrace, device : {"None", "Device", "custom"},
                      available : BOOLEAN, powered : BOOLEAN]
    /\ out_of_bounds = FALSE
    /\ layer_no = 0
    /\ retrace_no = 0
    /\ events = <<>>
    /\ measured = <<>>
    /\ NoTurtle
    /\ NoDevice
    /\ graph_paths = <<>>
    /\ endpoints = <<>>
    /\ solution = <<>>
    /\ route = <<>>
    /\ NoWalk
    /\ ret = "done"
    /\ impl = "optimization"
    /\ flags = NoFlags
    /\ geometry = <<>>
    /\ tolerance = 0
    /\ lines = <<>>
    /\ index = {}
    /\ r_index = {}
    /\ len = 0
    /\ out = <<>>
    /\ path = <<>>
    /\ pos = ORIGIN
    /\ result = <<>>
    /\ path_ids = <<>>
    /\ out_ids = <<>>
    /\ gaps = <<>>
    /\ kind = "list"
    /\ trace = <<>>
    /\ input = <<>>
    /\ layers = <<>>
    /\ collected = <<>>
    /\ layer_stage = "none"

NextDraw == DrawCall \/ DrawPlot \/ DrawStart \/ DrawInput \/ DrawRunLayer \/ DrawNextLayer

SpecDraw == InitDraw /\ [][NextDraw]_vars

\* ----------------------------------------------------- a turtle at work
\* Turtle() has been built
InitTurtle ==
    /\ pc = "turtle"
    /\ _state = [position |-> ORIGIN, heading |-> 0, pen_down |-> TRUE]
    /\ _stack = <<>>
    /\ _current_line = <<ORIGIN>>
    /\ _lines = <<>>
    /\ returned = <<>>
    /\ ops = 0
    /\ pushed = <<>>
    /\ moves = <<>>
    /\ last_op = [name |-> "__init__", from |-> ORIGIN, at_push |-> <<>>, depth |-> 0]
    /\ measured = <<>>
    /\ NoDraw
    /\ NoDevice
    /\ graph_paths = <<>>
    /\ endpoints = <<>>
    /\ solution = <<>>
    /\ route = <<>>
    /\ NoWalk
    /\ ret = "done"
    /\ impl = "optimization"
    /\ flags = NoFlags
    /\ geometry = <<>>
    /\ tolerance = 0
    /\ lines = <<>>
    /\ index = {}
    /\ r_index = {}
    /\ len = 0
    /\ out = <<>>
    /\ path = <<>>
    /\ pos = ORIGIN
    /\ result = <<>>
    /\ path_ids = <<>>
    /\ out_ids = <<>>
    /\ gaps = <<>>
    /\ kind = "MultiLineString"
    /\ trace = <<>>
    /\ input = <<>>
    /\ layers = <<>>
    /\ collected = <<>>
    /\ layer_stage = "none"

NextTurtle == Goto \/ TurnRight \/ RaisePen \/ LowerPen \/ Push \/ Pop \/ Drawing

SpecTurtle == InitTurtle /\ [][NextTurtle]_vars

\* ------------------------------------------------- a device at work
\* the state of everything but the device, nothing of it in use
NoOptimizer ==
    /\ ret = "done"
    /\ impl = "optimization"
    /\ flags = NoFlags
    /\ tolerance = 0
    /\ lines = <<>>
    /\ index = {}
    /\ r_index = {}
    /\ len = 0
    /\ out = <<>>
    /\ path = <<>>
    /\ pos = ORIGIN
    /\ result = <<>>
    /\ path_ids = <<>>
    /\ out_ids = <<>>
    /\ gaps = <<>>
    /\ kind = "MultiLineString"
    /\ trace = <<>>
    /\ input = geometry
    /\ layers = <<>>
    /\ collected = <<>>
    /\ layer_stage = "none"
    /\ graph_paths = <<>>
    /\ endpoints = <<>>
    /\ solution = <<>>
    /\ route = <<>>
    /\ NoWalk
    /\ measured = <<>>
    /\ NoDraw
    /\ NoTurtle

\* Device() has been built: self.error = (0, 0)
InitRunPlan ==
    /\ pc = "device"
    /\ geometry = <<>>
    /\ NoDevice
    /\ NoOptimizer

NextRunPlan == RunPlanCall \/ RunPlanSlice \/ RunPlanReturn

SpecRunPlan == InitRunPlan /\ [][NextRunPlan]_vars

\* device.run_layer(layer) is called with a MultiLineString
InitRunLayer ==
    /\ pc = "run_layer_call"
    /\ geometry \in Layers(Segments(JoinPts), MaxLayerPaths)
    /\ NoDevice
    /\ NoOptimizer

NextRunLayer == RunLayerCall \/ RunLayerBar \/ PlanJog \/ PlanDraw \/ PlanDone

SpecRunLayer == InitRunLayer /\ [][NextRunLayer]_vars

\* ------------------------------------------------------------ properties
\* a and b hold the same paths, each once, a path counting as itself backwards
SamePathsUpToReversal(a, b) ==
    /\ Len(a) = Len(b)
    /\ \E f \in Permutations(1..Len(a)) :
         \A i \in 1..Len(a) : a[i] = b[f[i]] \/ a[i] = reverse_path(b[f[i]])

\* a and b hold the same paths, each once and as it is
SamePaths(a, b) ==
    /\ Len(a) = Len(b)
    /\ \E f \in Permutations(1..Len(a)) : \A i \in 1..Len(a) : a[i] = b[f[i]]

\* p is a contiguous run of the points of q
IsRun(p, q) ==
    \E k \in 0..(Len(q) - Len(p)) : \A i \in 1..Len(p) : q[k + i] = p[i]

Endpoints(line) == {First(line), Last(line)}

C2_OrderNeverWorse ==
    pc = "done" => up_length(result) <= up_length(geometry)

\* C3: merge never returns more paths than it was given
C3_MergeNeverMorePaths ==
    pc = "done" => Len(result) <= Len(geometry)

C3_Witness ==
    /\ pc = "done"
    /\ Len(geometry) = 3
    /\ Len(result) = 2
    /\ Len(gaps) = 1

\* C4 as stated: with tolerance <= 0 merge welds nothing and returns its input
C4_NoMergeAtOrBelowZero ==
    (pc = "done" /\ tolerance <= 0) => (gaps = <<>> /\ result = geometry)

\* C4 amended: with tolerance < 0 merge welds nothing and returns the same
\* paths (all of them when fewer than two have positive length, else those of
\* positive length, in the order it popped them); with tolerance = 0 it welds
\* only end points that coincide exactly
C4_NoMergeBelowZero ==
    /\ (pc = "done" /\ tolerance < 0) =>
          /\ gaps = <<>>
          /\ IF Len(FilterPaths(geometry)) < 2 THEN result = geometry
             ELSE SamePaths(result, FilterPaths(geometry))
    /\ tolerance = 0 => \A i \in 1..Len(gaps) : gaps[i] = 0

C4_Witness ==
    /\ pc = "done"
    /\ tolerance = 0
    /\ Len(geometry) = 2
    /\ gaps = <<0>>
    /\ Len(result) = 1

\* C5: every input path of positive length is in exactly one output path of
\* merge, as a contiguous run of its points, forwards or backwards; a single
\* path left in the index after the seed loop is appended, not dropped
C5_MergeKeepsEveryPath ==
    pc = "done" =>
        IF Len(FilterPaths(geometry)) < 2 THEN result = geometry
        ELSE /\ Len(out_ids) = Len(result)
             /\ \A id \in 1..Len(FilterPaths(geometry)) :
                  Cardinality({<<k, j>> \in (1..Len(out_ids)) \X (1..MaxPaths + 1) :
                                  j <= Len(out_ids[k]) /\ out_ids[k][j] = id}) = 1
             /\ \A k \in 1..Len(out_ids) : \A j \in 1..Len(out_ids[k]) :
                  LET line == FilterPaths(geometry)[out_ids[k][j]]
                  IN IsRun(line, result[k]) \/ IsRun(reverse_path(line), result[k])

C5_Witness ==
    /\ pc = "done"
    /\ Len(lines) = 3
    /\ Len(out_ids) = 2
    /\ Len(out_ids[1]) = 2
    /\ Len(out_ids[2]) = 1
    /\ result[2] = lines[out_ids[2][1]]

\* C6: at least two paths of positive length and a tolerance larger than every
\* distance between two of their end points merge into exactly one path
C6_MergeAllAtLargeTolerance ==
    LET fl == FilterPaths(geometry)
    IN (/\ pc = "done"
        /\ Len(fl) >= 2
        /\ \A i, j \in 1..Len(fl) : \A p \in Endpoints(fl[i]), q \in Endpoints(fl[j]) :
              distance(p, q) < tolerance)
       => Len(result) = 1

C6_Witness ==
    /\ pc = "done"
    /\ Len(FilterPaths(geometry)) = 3
    /\ tolerance = 6
    /\ Len(result) = 1
    /\ \E i \in 1..2 : gaps[i] > 0

\* C7: the pen-down distance after merge differs from the one before by at
\* most (number of welds) x tolerance, and not at all when every weld joined
\* coinciding end points
C7_MergeKeepsInk ==
    pc = "done" =>
        /\ Abs(total_length(result) - total_length(geometry)) <= Len(gaps) * tolerance
        /\ (\A i \in 1..Len(gaps) : gaps[i] = 0) =>
              total_length(result) = total_length(geometry)

C7_Witness ==
    /\ pc = "done"
    /\ Len(gaps) = 2
    /\ gaps[1] = 0
    /\ gaps[2] > 0
    /\ total_length(result) # total_length(geometry)

\* the least distance between an end point of a and an end point of b
ClosestEnds(a, b) ==
    CHOOSE d \in {distance(p, q) : p \in Endpoints(a), q \in Endpoints(b)} :
        \A p \in Endpoints(a), q \in Endpoints(b) : d <= distance(p, q)

\* C8: every weld of merge bridges a distance <= tolerance; two paths whose
\* closest end points are farther apart stay two paths, two paths with end
\* points within tolerance come out as one
C8_WeldOnlyWithinTolerance ==
    /\ \A i \in 1..Len(gaps) : gaps[i] <= tolerance
    /\ LET fl == FilterPaths(geometry)
       IN (pc = "done" /\ Len(fl) = 2) =>
             /\ ClosestEnds(fl[1], fl[2]) > tolerance => Len(result) = 2
             /\ ClosestEnds(fl[1], fl[2]) <= tolerance => Len(result) = 1

C8_Witness ==
    /\ pc = "done"
    /\ Len(FilterPaths(geometry)) = 2
    /\ tolerance = 3
    /\ gaps = <<3>>
    /\ Len(result) = 1

\* every keyword flag of the optimize that was called is False
AllFlagsOff == \A f \in DOMAIN flags : ~flags[f]

\* C9: with every stage flag off, optimize returns its input unchanged
C9_AllStagesOffIsIdentity ==
    (pc = "done" /\ AllFlagsOff) => result = input

Rank(stage) ==
    CASE stage = "reloop" -> 1
      [] stage = "join" -> 2
      [] stage = "delete_small" -> 3
      [] OTHER -> 4

StageEnabled(stage) ==
    CASE stage = "reloop" -> flags.reloop
      [] stage = "join" -> JoinEnabled
      [] stage = "delete_small" -> flags.delete_small
      [] OTHER -> flags.sort

\* what stage number k of the trace was given
StageInput(k) == IF k = 1 THEN input ELSE trace[k - 1][2]
StageInputKind(k) == IF k = 1 THEN "MultiLineString" ELSE trace[k - 1][3]

\* C10: optimize runs its enabled stages in the order reloop, join,
\* delete-short, sort, each on what the stage before it returned: delete-short
\* filters the joined paths and sort orders what delete-short left
C10_StageOrder ==
    /\ \A i, j \in 1..Len(trace) : i < j => Rank(trace[i][1]) < Rank(trace[j][1])
    /\ pc = "done" =>
          /\ [k \in 1..Len(trace) |-> trace[k][1]]
                = SelectSeq(<<"reloop", "join", "delete_small", "sort">>, StageEnabled)
          /\ result = StageInput(Len(trace) + 1)
          /\ \A k \in 1..Len(trace) :
                IF StageInputKind(k) # "MultiLineString" THEN trace[k][2] = StageInput(k)
                ELSE /\ trace[k][1] = "delete_small" =>
                          trace[k][2] = _delete_short_paths_single(StageInput(k), tolerance)
                     /\ trace[k][1] = "sort" =>
                          SamePathsUpToReversal(trace[k][2], FilterPaths(StageInput(k)))
                     /\ trace[k][1] = "join" => Len(trace[k][2]) <= Len(StageInput(k))

C10_Witness ==
    /\ pc = "done"
    /\ Len(trace) = 4
    /\ Len(input) = 2
    /\ \E i \in 1..2 : 0 < length(input[i]) /\ length(input[i]) < tolerance
    /\ Len(trace[2][2]) = 1
    /\ result = trace[2][2]

\* the places of `a` whose paths are at least as long as the tolerance
LongEnough(a) == {k \in 1..Len(a) : length(a[k]) >= tolerance}

\* b is made of the paths of `a` at the places in K, in the order of `a`
KeepsExactly(a, b, K) ==
    /\ Len(b) = Cardinality(K)
    /\ \E f \in [1..Len(b) -> K] :
          /\ \A i, j \in 1..Len(b) : i < j => f[i] < f[j]
          /\ \A i \in 1..Len(b) : b[i] = a[f[i]]

SegCount(layer, s) ==
    Cardinality(UNION {{<<i, k>> : k \in {j \in 1..(Len(layer[i]) - 1) :
                                            SameLine(<<layer[i][j], layer[i][j + 1]>>, s)}} :
                          i \in 1..Len(layer)})

\* b is what the stage can make of the layer `a` and of nothing else
LayerAlone(a, b) ==
    CASE layer_stage = "delete_small" -> KeepsExactly(a, b, LongEnough(a))
      [] layer_stage = "sort" -> SamePathsUpToReversal(b, FilterPaths(a))
      [] OTHER ->
            /\ Len(b) <= Len(a)
            /\ \A s \in LayerPool : SegCount(b, s) >= SegCount(a, s)
            /\ total_length(b) - total_length(a) <= tolerance * (Len(a) - Len(b))

IsRotationOf(p, ring) ==
    /\ Len(p) = Len(ring)
    /\ First(p) = Last(p)
    /\ \E shift \in 0..(Len(ring) - 2) :
          \A j \in 1..(Len(ring) - 1) :
              p[j] = ring[((j - 1 + shift) % (Len(ring) - 1)) + 1]

\* C13: reloop returns the paths it was given, every closed path (first point
\* = last point) as a closed path that is a cyclic rotation of it and every
\* open path as it was
C13_ReloopRotatesClosedPaths ==
    (flags.reloop /\ pc # "opt_reloop") =>
        /\ pc # "NameError"
        /\ Len(trace) >= 1
        /\ trace[1][1] = "reloop"
        /\ Len(trace[1][2]) = Len(input)
        /\ \E f \in Permutations(1..Len(input)) :
              \A i \in 1..Len(input) :
                  IF First(input[i]) = Last(input[i])
                  THEN IsRotationOf(trace[1][2][f[i]], input[i])
                  ELSE trace[1][2][f[i]] = input[i]

\* C14: no zero-length path is in what merge (or order) returns, however few
\* paths of positive length the input holds
C14_ZeroLengthNeverInOutput ==
    pc = "done" => \A i \in 1..Len(result) : NonDegenerate(result[i])

\* the nodes of sol are nodes of paths, and each path of the graph has
\* exactly one of its two nodes in sol, once
SelectsEveryPathOnce(sol) ==
    /\ \A j \in 1..Len(sol) : sol[j] \in 1..(2 * Len(graph_paths))
    /\ \A k \in 1..Len(graph_paths) :
          Cardinality({j \in 1..Len(sol) : sol[j] \in {2 * k - 1, 2 * k}}) = 1

\* C15: get_route_from_solution returns a path collection, the chosen
\* direction of each path in the order of the nodes, exactly when the nodes
\* select the forward or the reverse node of every path once; given a missing
\* path, a path twice, both nodes of a path or the origin node it fails
C15_RouteOnlyFromValidSolution ==
    /\ pc = "route_returned" =>
          /\ SelectsEveryPathOnce(solution)
          /\ Len(route) = Len(graph_paths)
          /\ \A j \in 1..Len(route) :
                route[j] = IF solution[j] % 2 = 1 THEN graph_paths[(solution[j] + 1) \div 2]
                           ELSE reverse_path(graph_paths[solution[j] \div 2])
    /\ pc = "AssertionError" => (~SelectsEveryPathOnce(solution) /\ route = <<>>)

C15_Witness ==
    /\ pc = "AssertionError"
    /\ Len(graph_paths) = 2
    /\ Len(solution) = 2
    /\ solution[2] = get_disjoint(solution[1])
    /\ solution[1] # 0

\* C16: on the nodes i >= 1 of a graph get_disjoint is its own inverse and
\* has no fixed point, it pairs node 2k+1 with node 2k+2, and the start and
\* end coordinates of the two nodes of a pair are each other's swapped
C16_DisjointIsInvolution ==
    /\ \A i \in iter_starts_with_index :
          /\ get_disjoint(get_disjoint(i)) = i
          /\ get_disjoint(i) # i
          /\ get_disjoint(i) \in iter_starts_with_index
          /\ endpoints[get_disjoint(i) + 1] = <<endpoints[i + 1][2], endpoints[i + 1][1]>>
    /\ \A k \in 0..(Len(graph_paths) - 1) :
          /\ get_disjoint(2 * k + 1) = 2 * k + 2
          /\ get_disjoint(2 * k + 2) = 2 * k + 1
          /\ endpoints[2 * k + 2] = <<First(graph_paths[k + 1]), Last(graph_paths[k + 1])>>

C16_Witness ==
    /\ pc = "AssertionError"
    /\ Len(graph_paths) = 2
    /\ endpoints[4][1] # endpoints[4][2]
    /\ solution = <<3, get_disjoint(3)>>
    /\ endpoints[get_disjoint(3) + 1] = <<endpoints[4][2], endpoints[4][1]>>

\* the pen-up travel of a layer, the way back to the origin included
PenUpWithReturn(layer) ==
    IF layer = <<>> THEN 0
    ELSE distance(ORIGIN, First(layer[1]))
         + up_length_from(First(layer[1]), layer)
         + distance(Last(layer[Len(layer)]), ORIGIN)

\* C17: up_length, metrics().pen_up_dist and Drawing.up_length all give the
\* pen-up distance of a layer that counts the way from the origin to the
\* first path, the gaps between the paths and the way back to the origin
C17_PenUpMetricsAgree ==
    \A name \in DOMAIN measured : measured[name] = PenUpWithReturn(geometry)

\* the calls of methods of the device among what draw has done
DeviceCalls == SelectSeq(events, LAMBDA e : e[1] \notin {"warn", "render", "input"})

Plots ==
    /\ draw_args.plot
    /\ ~OutOfBounds(plot_layers, draw_args.width, draw_args.height)
    /\ draw_args.available
    /\ draw_args.powered

RECURSIVE PlotOfLayers(_, _)
\* for the layers from number i on: the prompt, then the layer `retrace` times
PlotOfLayers(i, retrace) ==
    IF i > Len(plot_layers) THEN <<>>
    ELSE <<<<"input", i>>>> \o [k \in 1..retrace |-> <<"run_layer", i>>]
         \o PlotOfLayers(i + 1, retrace)

\* what a plot is to consist of
PlotSequence ==
    <<<<"zero_position", 0>>, <<"enable_motors", 0>>, <<"pen_up", 0>>>>
    \o PlotOfLayers(1, draw_args.retrace)
    \o <<<<"disable_motors", 0>>>>

\* the prompts and the calls of the device's methods that draw has made
PlotEvents == SelectSeq(events, LAMBDA e : e[1] \notin {"warn", "render"})

\* C19: when draw plots, the device gets zero_position, enable_motors and
\* pen_up once, then for each layer in order the prompt is answered and the
\* layer is run `retrace` times, and disable_motors comes after the last run
C19_PlotSequence ==
    (Plots /\ pc \notin {"draw_call", "draw_plot"}) =>
        /\ Len(PlotEvents) <= Len(PlotSequence)
        /\ PlotEvents = SubSeq(PlotSequence, 1, Len(PlotEvents))
        /\ pc \in {"draw_start", "draw_input", "draw_retrace", "draw_returned"}
        /\ pc = "draw_returned" => PlotEvents = PlotSequence

\* the same for a device object of the caller's that has every method draw calls
C19_PlotSequenceOfCustomDevice ==
    draw_args.device = "custom" => C19_PlotSequence

\* how often the segment from p to q occurs in the lines
TimesDrawn(ls, p, q) ==
    Cardinality(UNION {{<<i, k>> : k \in {j \in 1..(Len(ls[i]) - 1) :
                                            ls[i][j] = p /\ ls[i][j + 1] = q}} :
                          i \in 1..Len(ls)})

\* how often the pen went from p to q while it was down
TimesMoved(p, q) == Cardinality({k \in 1..Len(moves) : moves[k] = <<p, q>>})

\* what drawing() would return now
DrawingNow ==
    IF _state.pen_down THEN RaisedLines ELSE _lines

\* C20: a pop restores the position, the heading and the pen state of the
\* push it belongs to and the depth the stack had before that push, whatever
\* moves, turns, pen changes and nested pushes and pops came between; and
\* every segment of a line that drawing() returns is a pen-down move of the
\* turtle, so the jump of a pop from where the turtle was to the restored
\* position is in none of them
C20_PopRestoresPush ==
    pc = "turtle" =>
        /\ last_op.name = "pop" =>
              /\ _state = last_op.at_push
              /\ Len(_stack) = last_op.depth
        /\ \A p \in TurtlePts, q \in TurtlePts :
              /\ TimesDrawn(DrawingNow, p, q) <= TimesMoved(p, q)
              /\ TimesDrawn(returned, p, q) <= TimesMoved(p, q)

C20_Witness ==
    /\ pc = "turtle"
    /\ last_op.name = "pop"
    /\ last_op.from # _state.position
    /\ _state.pen_down
    /\ _state.heading = 0
    /\ Len(_stack) = 0
    /\ Len(_lines) = 1
    /\ TimesMoved(last_op.from, _state.position) = 0
    /\ TimesDrawn(DrawingNow, _state.position, last_op.from) = 1

\* the points a walk can go to next: the start of every path not yet selected,
\* in either orientation
StartsLeft == {First(lines[i]) : i \in index} \cup {Last(lines[i]) : i \in r_index}

\* a step of the walk selects a path not yet selected, as it is or backwards,
\* whose start is as near to the pen as any start left, and moves the pen to
\* the end of the path
SelectsNearest ==
    (pc = "sort_loop" /\ Len(out') = Len(out) + 1) =>
        LET chosen == out'[Len(out')]
        IN /\ \E i \in index \ index' : chosen \in {lines[i], reverse_path(lines[i])}
           /\ \A q \in StartsLeft : distance(pos, First(chosen)) <= distance(pos, q)
           /\ pos' = Last(chosen)

Walked == UNION {{yielded[j], get_disjoint(yielded[j])} : j \in 1..Len(yielded)}

\* C22: greedy_walk over a graph of N paths yields N nodes, never the origin
\* and never both nodes of a pair, because a selected node leaves the index
\* together with its partner; check_valid_solution accepts what it yielded
C22_GreedyWalkIsValid ==
    /\ \A j \in 1..Len(yielded) : yielded[j] \in iter_starts_with_index
    /\ \A j, k \in 1..Len(yielded) :
          j < k => yielded[k] \notin {yielded[j], get_disjoint(yielded[j])}
    /\ pc = "greedy_walk" => path_index = iter_starts_with_index \ Walked
    /\ pc = "walk_done" =>
          /\ Len(yielded) = Len(graph_paths)
          /\ check_valid_solution(yielded)

C22_Witness ==
    /\ pc = "walk_done"
    /\ Len(graph_paths) = 2
    /\ yielded = <<4, 1>>
    /\ check_valid_solution(yielded)

\* no end point of one of the paths a is within the tolerance of an end point
\* of another of them
EndsApart(a) ==
    \A i, j \in 1..Len(a) :
        i # j => \A p \in Endpoints(a[i]), q \in Endpoints(a[j]) : distance(p, q) > tolerance

\* C23: when merge returns, no two distinct output paths have end points
\* (start or end of either) within the tolerance of each other
C23_OutputEndsApart ==
    pc = "done" => EndsApart(result)

\* the same for the inputs merge goes to work on: at least two paths of
\* positive length
C23_OutputEndsApartOfTwoOrMore ==
    (pc = "done" /\ Len(FilterPaths(geometry)) >= 2) => EndsApart(result)

\* w is the points of a followed by the points of b, the point where they
\* meet once if a ends where b starts and both end points if not
PointsOfBoth(w, a, b) ==
    LET shared == IF Last(a) = First(b) THEN 1 ELSE 0
    IN /\ Len(w) = Len(a) + Len(b) - shared
       /\ SubSeq(w, 1, Len(a)) = a
       /\ SubSeq(w, Len(a) + 1 - shared, Len(w)) = b

\* C24 as stated: the welded path is a's points followed by b's, the junction
\* once when a's last point is b's first and both end points otherwise, and
\* it is as long as a and b together, no segment being drawn across a gap
C24_WeldKeepsLength ==
    pc = "weld_done" =>
        /\ PointsOfBoth(result, geometry[1], geometry[2])
        /\ length(result) = length(geometry[1]) + length(geometry[2])

\* C24 amended: the welded path is a's points followed by b's, the junction
\* once when a's last point is b's first and both end points otherwise; the
\* two end points are then consecutive points of the one path, so the segment
\* across the gap is drawn and the path is as long as a, b and the gap together
C24_WeldAddsGap ==
    pc = "weld_done" =>
        /\ PointsOfBoth(result, geometry[1], geometry[2])
        /\ length(result) = length(geometry[1]) + length(geometry[2])
                               + distance(Last(geometry[1]), First(geometry[2]))
        /\ Last(geometry[1]) # First(geometry[2]) =>
              \E k \in 1..(Len(result) - 1) :
                  <<result[k], result[k + 1]>> = <<Last(geometry[1]), First(geometry[2])>>

C24_Witness ==
    /\ pc = "weld_done"
    /\ Last(geometry[1]) # First(geometry[2])
    /\ Len(result) = Len(geometry[1]) + Len(geometry[2])
    /\ length(result) = length(geometry[1]) + length(geometry[2]) + 5

\* a turn of a loop of merge, of order or of greedy_walk that goes on to
\* another turn: a seed is taken, an extension welded, a path appended, a
\* node yielded
LoopTurn ==
    \/ pc = "join_loop" /\ pc' \in {"join_loop", "join_extend"}
    \/ pc = "join_extend" /\ pc' = "join_extend"
    \/ pc = "sort_loop" /\ pc' = "sort_loop"
    \/ pc = "greedy_walk" /\ pc' = "greedy_walk"

C26_DeletesNamePresentIds ==
    /\ [](missing = {})
    /\ [][/\ (index \ index') \cup (r_index \ r_index') \subseteq index \cap r_index
          /\ Cardinality(index \ index') <= 1
          /\ path_index \ path_index' # {} =>
                \E i \in path_index : path_index \ path_index' = {i, get_disjoint(i)}]_vars

C26_Witness ==
    /\ pc = "walk_done"
    /\ Len(yielded) = 2
    /\ yielded[1] % 2 = 0
    /\ path_index = {}
    /\ missing = {}

\* C27: whatever merge or order have popped, len(LineIndex) is the number of
\* ids in the index of start points and the number of ids in the index of
\* end points, and the two indexes hold the same ids
C27_LengthCountsBothIndexes ==
    /\ index = r_index
    /\ len = Cardinality(index)
    /\ len = Cardinality(r_index)
    /\ index \subseteq 1..Len(lines)

C27_Witness ==
    /\ pc = "join_extend"
    /\ Len(lines) = 3
    /\ Len(gaps) = 1
    /\ len = 1
    /\ Cardinality(index) = 1

\* drawing() has been called twice in a row
DrawingAgain == last_op.name = "drawing" /\ last_op'.name = "drawing"

\* C29: whatever the turtle has been told, every move with the pen down is a
\* segment of a line of drawing() and no move with the pen up is one; a
\* second drawing() right after the first returns the same lines and leaves
\* the position, the heading and the pen as they were
C29_DrawingHoldsPenDownMoves ==
    /\ [](pc = "turtle" =>
             \A p \in TurtlePts, q \in TurtlePts :
                 (TimesMoved(p, q) > 0) = (TimesDrawn(DrawingNow, p, q) > 0))
    /\ [][DrawingAgain => (returned' = returned /\ _state' = _state)]_vars

RECURSIVE PlansOfLayer(_, _, _)
\* for the paths of the layer from number i on: the jog to the path, the path
PlansOfLayer(layer, i, position) ==
    IF i > Len(layer) THEN <<>>
    ELSE <<<<"jog", i, distance(position, First(layer[i]))>>,
           <<"draw", i, length(layer[i])>>>>
         \o PlansOfLayer(layer, i + 1, Last(layer[i]))

\* what the planning process is to put into the queue
PlannedItems == PlansOfLayer(geometry, 1, ORIGIN) \o <<<<"DONE", 0, 0>>>>

\* C28: in run_layer, while the planning process fills the queue, the plans
\* are run in the order jog 1, draw 1, jog 2, draw 2, ... of the paths of
\* the layer, two plans to a path and then the one DONE marker, and
\* run_layer comes to its end, the pen up, instead of raising
C28_RunLayerRunsPlansInOrder ==
    /\ Len(queue) <= Len(PlannedItems)
    /\ queue = SubSeq(PlannedItems, 1, Len(queue))
    /\ pc \in {"run_layer_call", "run_layer_bar", "run_layer_loop", "run_layer_returned"}

\* the error carried on, and what has been sent, for one axis
Carried(axis) ==
    /\ error[axis] < StepUnit
    /\ error[axis] > -StepUnit
    /\ StepUnit * sent[axis] + error[axis] = 0 + ideal[axis]

\* C30: after every timeslice of run_plan the step error carried on is less
\* than one step in magnitude on each axis, and on each axis the steps sent
\* so far plus the error carried on are the error the device started with
\* (0) plus the displacement asked for so far, in steps: no step is lost or
\* sent twice, within a plan or from one plan to the next
C30_StepErrorCarried ==
    Carried(1) /\ Carried(2)

C30_Witness ==
    /\ pc = "run_plan"
    /\ plans_run = 2
    /\ slice_no = 1
    /\ error[1] < 0
    /\ error[2] > 0
    /\ sent[1] = 1
    /\ ideal[1] = 1

====
